---- MODULE Spec2Model ----
(***************************************************************************)
(* Model of the deeptech_ai repository: the expert embedding store of the  *)
(* semantic-search service (services/database_service.py) and the          *)
(* multi-source profile aggregator (Trial_deeptech-saketh/aggregator.py).  *)
(***************************************************************************)
EXTENDS Integers, Sequences, FiniteSets, TLC

VARIABLES
    experts,              \* experts table joined with profiles: id -> row or NoRow
    clock,                \* the database clock read by NOW()
    response,             \* the rows returned by the query in progress (one is observed at a time)
    embeddedSinceUpdate,  \* history: update_expert_embedding ran after the last profile update
    documents,            \* st.session_state.documents, the input list of aggregate_profile
    profile,              \* the profile returned by the last aggregate_profile call
    prevProfile,          \* the profile returned by the call before it on the same list
    hashSeed,             \* the interpreter's string hash seed (fixed per process)
    columns,              \* the embedding columns the experts table has
    batch,                \* the batch re-embedding run in progress, or NoBatch
    service,              \* the DatabaseService object: self.pool, the pools created, the calls in flight
    regen                 \* profile content versions and the embedding regeneration in flight

storeVars == <<experts, clock, response, embeddedSinceUpdate>>
aggVars == <<documents, profile, prevProfile, hashSeed>>
jobVars == <<columns, batch>>
opsVars == <<service, regen>>
vars == <<experts, clock, response, embeddedSinceUpdate,
          documents, profile, prevProfile, hashSeed, columns, batch, service, regen>>

----------------------------------------------------------------------------
(* Bounds of the model *)

NExperts == 3
MaxClock == 2
MaxLimit == 2
MaxDocs == 3
NBatch == 5
NCallers == 2
MaxPools == 3
MaxTextLen == 10
MaxComponent == 2
MaxSources == 4

----------------------------------------------------------------------------
(* Generic helpers *)

\* A nullable column or optional value holds <<>> (NULL, None) or <<v>>.
Null == <<>>
Some(v) == <<v>>
Val(x) == x[1]

NoResponse == [op |-> "none"]
NoBatch == [pc |-> "idle"]

Range(s) == {s[i] : i \in 1..Len(s)}

\* All sequences that list every element of S exactly once.
Orderings(S) ==
    {p \in [1..Cardinality(S) -> S] : \A i, j \in 1..Cardinality(S) : i # j => p[i] # p[j]}

\* The first n elements of s (SQL LIMIT n, Python s[:n]).
Take(s, n) == IF n >= Len(s) THEN s ELSE SubSeq(s, 1, n)

----------------------------------------------------------------------------
(* Embedding vectors.  A vector is one of eight unit directions, 45 degrees *)
(* apart; CosTable[k + 1] is 100 * cos(k * 45 degrees).  The encoder only   *)
(* hands non-zero vectors to the store (generate_embedding raises on empty  *)
(* text).                                                                   *)

CosTable == <<100, 71, 0, -71, -100, -71, 0, 71>>

Vectors == {0, 1, 4}

\* 1 - (a <=> b): pgvector's cosine distance, as a similarity scaled by 100.
Similarity(a, b) == CosTable[((a - b + 8) % 8) + 1]

----------------------------------------------------------------------------
(* Seed data (seed_experts.py): the attribute columns of the test experts.  *)

ExpertIds == 1..NExperts

SeedRate == <<150, 140, 160, 120>>
SeedRating == <<48, 49, 47, 46>>
SeedDomains == <<{"AI", "Machine Learning", "Computer Vision"},
                 {"Data Science", "Computer Vision", "AI"},
                 {"Blockchain", "DeFi", "Cryptocurrency"},
                 {"Web Development", "Cloud Computing", "DevOps"}>>

SeedIndex(e) == ((e - 1) % 4) + 1

hourly_rate_advisory(e) == SeedRate[SeedIndex(e)]
rating(e) == SeedRating[SeedIndex(e)]
domains(e) == SeedDomains[SeedIndex(e)]
vetting_status(e) == "approved"
\* The seed inserts NULL into the jsonb column availability.
availability(e) == Null

\* A row of experts joined with its profiles row; exists is FALSE while the id
\* has not been inserted.  The seed inserts the experts one statement at a
\* time in id order, so created_at grows with the id and is not stored.
NoRow ==
    [exists |-> FALSE,
     role |-> "",
     embedding |-> Null,
     embedding_text |-> Null,
     embedding_updated_at |-> Null,
     updated_at |-> 0]

NewExpertRow(now) ==
    [exists |-> TRUE,
     role |-> "expert",
     embedding |-> Null,
     embedding_text |-> Null,
     embedding_updated_at |-> Null,
     updated_at |-> now]

Existing == {e \in ExpertIds : experts[e].exists}

\* The columns add_semantic_search_columns adds for the embeddings.
EmbeddingColumns == {"embedding", "embedding_text", "embedding_updated_at"}

----------------------------------------------------------------------------
(* The encoders.  A text is a sequence of characters, " " standing for       *)
(* whitespace and "a" for any other character.  The result of an encoder is  *)
(* the zero vector of a dimension, the vector the model computed, or the     *)
(* exception raised.                                                         *)

\* All sequences over S of length 0..n.
SeqsUpTo(S, n) == UNION {[1..k -> S] : k \in 0..n}

Texts == SeqsUpTo({" ", "a"}, MaxTextLen)

\* str.strip()
RECURSIVE LStrip(_)
LStrip(text) ==
    IF text # <<>> /\ Head(text) = " " THEN LStrip(Tail(text)) ELSE text

RECURSIVE RStrip(_)
RStrip(text) ==
    IF text # <<>> /\ text[Len(text)] = " "
    THEN RStrip(SubSeq(text, 1, Len(text) - 1))
    ELSE text

Strip(text) == RStrip(LStrip(text))

\* all-MiniLM-L6-v2 embeddings have 384 components.
EmbeddingDim == 384

\* len(text.strip()) < 10
MinDocumentChars == 10

ZeroVector(dim) == [kind |-> "zeros", dim |-> dim]
ModelVector(text) == [kind |-> "model.encode", dim |-> EmbeddingDim]
Raised(exception) == [kind |-> "raised", exception |-> exception]

\* SemanticMatcher.encode_document
encode_document_result(text) ==
    IF text = <<>> \/ Len(Strip(text)) < MinDocumentChars
    THEN ZeroVector(EmbeddingDim)
    ELSE ModelVector(text)

\* EmbeddingService.generate_embedding
generate_embedding_result(text, ready) ==
    IF ~ready THEN Raised("RuntimeError")
    ELSE IF text = <<>> \/ Strip(text) = <<>> THEN Raised("ValueError")
    ELSE ModelVector(text)

encode_document(text) ==
    /\ response = NoResponse
    /\ response' = [op |-> "encode_document", text |-> text,
                    result |-> encode_document_result(text)]
    /\ UNCHANGED <<experts, clock, embeddedSinceUpdate>>

generate_embedding(text, ready) ==
    /\ response = NoResponse
    /\ response' = [op |-> "generate_embedding", text |-> text, ready |-> ready,
                    result |-> generate_embedding_result(text, ready)]
    /\ UNCHANGED <<experts, clock, embeddedSinceUpdate>>

----------------------------------------------------------------------------
(* calculate_similarity.  The vectors have small integer components, which   *)
(* floating point represents exactly; the square root, the product of the    *)
(* norms and the quotient are each rounded to the nearest floating-point     *)
(* number.  The model keeps FloatDigits significant decimal digits where     *)
(* float64 keeps 53 bits.  A rounded number is m / s with s a power of 10.   *)

FloatDigits == 3

RECURSIVE Pow10(_)
Pow10(n) == IF n = 0 THEN 1 ELSE 10 * Pow10(n - 1)

\* The nearest integer to a / b (a >= 0, b > 0), halves upwards.
RoundDiv(a, b) == (2 * a + b) \div (2 * b)

\* num / den (num >= 0, den > 0) rounded to FloatDigits significant digits.
RoundSig(num, den) ==
    IF num = 0 THEN [m |-> 0, s |-> 1]
    ELSE LET k == CHOOSE k \in 0..(2 * FloatDigits) :
                      /\ num * Pow10(k) >= den * Pow10(FloatDigits - 1)
                      /\ num * Pow10(k) < den * Pow10(FloatDigits)
         IN [m |-> RoundDiv(num * Pow10(k), den), s |-> Pow10(k)]

\* The square root of the integer n >= 1 rounded to FloatDigits significant
\* digits.
SqrtSig(n) ==
    LET k == CHOOSE k \in 0..FloatDigits :
                 /\ n * Pow10(2 * k) >= Pow10(2 * (FloatDigits - 1))
                 /\ n * Pow10(2 * k) < Pow10(2 * FloatDigits)
        x == n * Pow10(2 * k)
        r == CHOOSE r \in 0..Pow10(FloatDigits) :
                 /\ (2 * r - 1) * (2 * r - 1) <= 4 * x
                 /\ 4 * x < (2 * r + 1) * (2 * r + 1)
    IN [m |-> r, s |-> Pow10(k)]

\* Vectors of one or two components in -MaxComponent..MaxComponent.
FloatVectors == UNION {[1..d -> (0 - MaxComponent)..MaxComponent] : d \in 1..2}

RECURSIVE Dot(_, _)
Dot(a, b) == IF a = <<>> THEN 0 ELSE Head(a) * Head(b) + Dot(Tail(a), Tail(b))

Abs(x) == IF x < 0 THEN 0 - x ELSE x

FloatZero == [sign |-> 0, m |-> 0, s |-> 1]

\* if norm1 == 0 or norm2 == 0: return 0.0
ZeroNormResult == FloatZero

\* EmbeddingService.calculate_similarity: sign * m / s.  np.dot raises
\* ValueError for vectors of different length, and the except clause
\* returns 0.0.
calculate_similarity_result(embedding1, embedding2) ==
    IF Len(embedding1) # Len(embedding2) THEN FloatZero
    ELSE LET dot_product == Dot(embedding1, embedding2)
             sq1 == Dot(embedding1, embedding1)
             sq2 == Dot(embedding2, embedding2)
         IN IF sq1 = 0 \/ sq2 = 0 THEN ZeroNormResult
            ELSE LET norm1 == SqrtSig(sq1)
                     norm2 == SqrtSig(sq2)
                     product == RoundSig(norm1.m * norm2.m, norm1.s * norm2.s)
                     similarity == RoundSig(Abs(dot_product) * product.s, product.m)
                 IN [sign |-> IF dot_product < 0 THEN 0 - 1
                              ELSE IF dot_product = 0 THEN 0 ELSE 1,
                     m |-> similarity.m,
                     s |-> similarity.s]

calculate_similarity(embedding1, embedding2) ==
    /\ response = NoResponse
    /\ response' = [op |-> "calculate_similarity",
                    embedding1 |-> embedding1, embedding2 |-> embedding2,
                    result |-> calculate_similarity_result(embedding1, embedding2)]
    /\ UNCHANGED <<experts, clock, embeddedSinceUpdate>>

----------------------------------------------------------------------------
(* Initial state *)

InitStore ==
    /\ experts = [e \in ExpertIds |-> NoRow]
    /\ clock = 0
    /\ response = NoResponse
    /\ embeddedSinceUpdate = [e \in ExpertIds |-> FALSE]

----------------------------------------------------------------------------
(* Writers of the experts table *)

\* add_semantic_search_columns: one iteration of the loop over columns_to_add
\* for a column the table does not have, ALTER TABLE experts ADD COLUMN.  The
\* column is nullable and has no default, so every row holds NULL in it (rows
\* carry NULL for a column the table does not have yet).  A failing ALTER is
\* caught and leaves the table as it is.
add_semantic_search_columns(column_name) ==
    /\ column_name \notin columns
    /\ columns' = columns \cup {column_name}
    /\ response' = NoResponse
    /\ UNCHANGED <<experts, clock, embeddedSinceUpdate, batch>>

\* seed_experts: one iteration of the insert loop.  The test experts are
\* inserted in list order, profile row first, ON CONFLICT (id) DO NOTHING.
SeedExpert ==
    /\ Cardinality(Existing) < NExperts
    /\ LET e == Cardinality(Existing) + 1 IN
        experts' = [experts EXCEPT ![e] = NewExpertRow(clock)]
    /\ response' = NoResponse
    /\ UNCHANGED <<clock, embeddedSinceUpdate>>

\* Time passes on the database server.
Tick ==
    /\ clock < MaxClock
    /\ clock' = clock + 1
    /\ UNCHANGED <<experts, response, embeddedSinceUpdate>>

\* The platform edits an expert's profile content: experts.updated_at moves
\* to the time of the edit.
ProfileUpdate(e) ==
    /\ experts[e].exists
    /\ experts' = [experts EXCEPT ![e].updated_at = clock]
    /\ embeddedSinceUpdate' = [embeddedSinceUpdate EXCEPT ![e] = FALSE]
    /\ response' = NoResponse
    /\ UNCHANGED clock

\* Mutant: the write keeps the row's creation time instead of NOW().
EmbeddingTimestamp_Epoch(now) == 0

\* The timestamp update_expert_embedding stores in embedding_updated_at.
EmbeddingTimestamp(now) == now

\* The UPDATE changes a row: the id is in the table and the statement names
\* only columns the table has (it fails as a whole otherwise).
UpdateApplies(expert_id) ==
    /\ experts[expert_id].exists
    /\ EmbeddingColumns \subseteq columns

\* Mutant: the UPDATE does not set embedding_updated_at.
update_expert_embedding_NoTimestamp(expert_id, embedding, text) ==
    /\ experts' =
         IF ~UpdateApplies(expert_id)
         THEN experts
         ELSE [experts EXCEPT ![expert_id].embedding = Some(embedding),
                              ![expert_id].embedding_text = Some(text)]
    /\ embeddedSinceUpdate' =
         IF ~UpdateApplies(expert_id)
         THEN embeddedSinceUpdate
         ELSE [embeddedSinceUpdate EXCEPT ![expert_id] = TRUE]
    /\ response' = NoResponse
    /\ UNCHANGED clock

\* Mutant: a text the row already has is kept (COALESCE(embedding_text, $2)).
update_expert_embedding_KeepsText(expert_id, embedding, text) ==
    /\ experts' =
         IF ~UpdateApplies(expert_id)
         THEN experts
         ELSE [experts EXCEPT ![expert_id].embedding = Some(embedding),
                              ![expert_id].embedding_text =
                                  IF @ = Null THEN Some(text) ELSE @,
                              ![expert_id].embedding_updated_at =
                                  Some(EmbeddingTimestamp(clock))]
    /\ embeddedSinceUpdate' =
         IF ~UpdateApplies(expert_id)
         THEN embeddedSinceUpdate
         ELSE [embeddedSinceUpdate EXCEPT ![expert_id] = TRUE]
    /\ response' = NoResponse
    /\ UNCHANGED clock

\* DatabaseService.update_expert_embedding: UPDATE experts SET embedding,
\* embedding_text, embedding_updated_at = NOW() WHERE id = expert_id, one
\* statement on a connection of its own.
update_expert_embedding(expert_id, embedding, text) ==
    /\ experts' =
         IF ~UpdateApplies(expert_id)
         THEN experts
         ELSE [experts EXCEPT ![expert_id].embedding = Some(embedding),
                              ![expert_id].embedding_text = Some(text),
                              ![expert_id].embedding_updated_at =
                                  Some(EmbeddingTimestamp(clock))]
    /\ embeddedSinceUpdate' =
         IF ~UpdateApplies(expert_id)
         THEN embeddedSinceUpdate
         ELSE [embeddedSinceUpdate EXCEPT ![expert_id] = TRUE]
    /\ response' = NoResponse
    /\ UNCHANGED clock

\* The (vector, text) pairs the embedding service hands to the store.
EmbeddingInputs ==
    {[vec |-> 0, text |-> "Name: A"], [vec |-> 1, text |-> "Name: B"],
     [vec |-> 4, text |-> "Name: C"]}

----------------------------------------------------------------------------
(* get_experts_needing_embeddings *)

\* Mutant: the comparison of the two timestamps is left out.
NeedsEmbedding_NullOnly(row) ==
    \/ row.embedding = Null
    \/ row.embedding_updated_at = Null

\* WHERE e.embedding IS NULL OR e.embedding_updated_at IS NULL
\*    OR e.embedding_updated_at < e.updated_at
NeedsEmbedding(row) ==
    \/ row.embedding = Null
    \/ row.embedding_updated_at = Null
    \/ Val(row.embedding_updated_at) < row.updated_at

\* The rows of the staleness query, ORDER BY e.created_at ASC.
StaleRows(store) ==
    LET ids == {e \in DOMAIN store : store[e].exists /\ NeedsEmbedding(store[e])} IN
    CHOOSE p \in Orderings(ids) : \A i, j \in 1..Len(p) : i < j => p[i] < p[j]

get_experts_needing_embeddings ==
    /\ response = NoResponse
    /\ response' = [op |-> "stale", rows |-> StaleRows(experts)]
    /\ UNCHANGED <<experts, clock, embeddedSinceUpdate>>

----------------------------------------------------------------------------
(* search_similar_experts *)

\* The filters argument: None, or a dict holding some of the filter keys.
NoFilters == [none |-> TRUE]

\* filters.get(key) is truthy, for a text-valued key: present, not None, not "".
SuppliedText(filters, key) ==
    /\ key \in DOMAIN filters
    /\ filters[key] # Null
    /\ Val(filters[key]) # ""

\* filters.get(key) is truthy, for a number-valued key: present, not None, not 0.
SuppliedNumber(filters, key) ==
    /\ key \in DOMAIN filters
    /\ filters[key] # Null
    /\ Val(filters[key]) # 0

\* filters.get(key) is not None.
SuppliedNotNone(filters, key) ==
    /\ key \in DOMAIN filters
    /\ filters[key] # Null

\* The AND clauses search_similar_experts appends for the filters dict.  The
\* comparison e.availability = $n is not true for a NULL column.
PassesFilters(e, filters) ==
    \/ filters = NoFilters
    \/ /\ SuppliedText(filters, "domain") => Val(filters.domain) \in domains(e)
       /\ SuppliedNumber(filters, "min_hourly_rate") =>
              hourly_rate_advisory(e) >= Val(filters.min_hourly_rate)
       /\ SuppliedNumber(filters, "max_hourly_rate") =>
              hourly_rate_advisory(e) <= Val(filters.max_hourly_rate)
       /\ SuppliedText(filters, "vetting_status") =>
              vetting_status(e) = Val(filters.vetting_status)
       /\ SuppliedNumber(filters, "min_rating") => rating(e) >= Val(filters.min_rating)
       /\ SuppliedNotNone(filters, "availability") =>
              /\ availability(e) # Null
              /\ availability(e) = filters.availability

\* Mutant: the threshold clause is dropped from the WHERE.
MeetsThreshold_Dropped(score, threshold) == TRUE

\* AND 1 - (e.embedding <=> $1::vector) >= $2
MeetsThreshold(score, threshold) == score >= threshold

\* WHERE e.embedding IS NOT NULL AND p.role = 'expert' AND similarity >= threshold
\* AND the filter clauses.
SearchMatches(store, query_embedding, threshold, filters) ==
    {e \in ExpertIds :
        /\ store[e].exists
        /\ store[e].embedding # Null
        /\ store[e].role = "expert"
        /\ MeetsThreshold(Similarity(Val(store[e].embedding), query_embedding), threshold)
        /\ PassesFilters(e, filters)}

\* ORDER BY similarity_score DESC: every order of the matching rows in which
\* the score never increases (rows of equal score come in any order).
SearchRowOrders(store, query_embedding, threshold, filters) ==
    {p \in Orderings(SearchMatches(store, query_embedding, threshold, filters)) :
        \A i, j \in 1..Len(p) : i < j =>
            Similarity(Val(store[p[i]].embedding), query_embedding)
                >= Similarity(Val(store[p[j]].embedding), query_embedding)}

\* LIMIT $n
ApplyLimit(rows, limit) == Take(rows, limit)

SearchRow(store, e, query_embedding) ==
    [id |-> e, similarity_score |-> Similarity(Val(store[e].embedding), query_embedding)]

Thresholds == {-100, 37, 71}

FilterChoices ==
    {NoFilters,
     [domain |-> Some("AI")],
     [min_hourly_rate |-> Some(145), min_rating |-> Some(0)],
     [domain |-> Some("Computer Vision"), max_hourly_rate |-> Some(145)],
     [max_hourly_rate |-> Some(0)],
     [availability |-> Some(TRUE)],
     [vetting_status |-> Some("approved"), min_rating |-> Some(48), domain |-> Null]}

search_similar_experts(query_embedding, limit, threshold, filters) ==
    /\ response = NoResponse
    /\ \E p \in SearchRowOrders(experts, query_embedding, threshold, filters) :
        response' =
            [op |-> "search",
             query_embedding |-> query_embedding,
             limit |-> limit,
             threshold |-> threshold,
             filters |-> filters,
             rows |-> [i \in 1..Len(ApplyLimit(p, limit)) |->
                          SearchRow(experts, p[i], query_embedding)],
             previous |-> Null]
    /\ UNCHANGED <<experts, clock, embeddedSinceUpdate>>

\* A second call of search_similar_experts with the arguments of the call that
\* was just answered, on the unchanged store; previous keeps the rows of the
\* first call.
search_similar_experts_again ==
    /\ response # NoResponse
    /\ response.op = "search"
    /\ response.previous = Null
    /\ \E p \in SearchRowOrders(experts, response.query_embedding,
                                 response.threshold, response.filters) :
        response' =
            [response EXCEPT
                !.rows = [i \in 1..Len(ApplyLimit(p, response.limit)) |->
                             SearchRow(experts, p[i], response.query_embedding)],
                !.previous = Some(response.rows)]
    /\ UNCHANGED <<experts, clock, embeddedSinceUpdate>>

----------------------------------------------------------------------------
(* DatabaseService: the connection pool.  service.pool is self.pool (Null or *)
(* the id of a pool), service.pools the state of every pool created so far,  *)
(* service.db_up whether the database answers queries, service.calls the     *)
(* position of each caller's coroutine between two awaits.                   *)

Callers == 1..NCallers

IdleCall == [pc |-> "idle", op |-> "", p |-> 0]

\* DatabaseService() as constructed: self.pool = None.
NewService ==
    [pool |-> Null, pools |-> <<>>, db_up |-> TRUE,
     calls |-> [c \in Callers |-> IdleCall]]

\* The service after a successful initialize().
StartedService ==
    [pool |-> Some(1), pools |-> <<"open">>, db_up |-> TRUE,
     calls |-> [c \in Callers |-> IdleCall]]

PoolOpen(p) == service.pools[p] = "open"

\* The store answers: self.pool is an open pool and the database is up.
StoreAvailable ==
    /\ service.pool # Null
    /\ PoolOpen(Val(service.pool))
    /\ service.db_up

\* The database goes down or comes back.
DatabaseFlips ==
    /\ service' = [service EXCEPT !.db_up = ~@]
    /\ response' = NoResponse
    /\ UNCHANGED <<experts, clock, embeddedSinceUpdate>>

\* Pool.close(): the pool takes no new acquire from now on.
ClosePool(pools, p) == [pools EXCEPT ![p] = "closed"]

\* initialize(), up to its first await: the health check of an existing pool
\* (self.pool.acquire()) or asyncpg.create_pool.
initialize_begin(c) ==
    /\ service.calls[c].pc = "idle"
    /\ service' =
         IF service.pool # Null
         THEN [service EXCEPT !.calls[c] =
                  [pc |-> "health", op |-> "initialize", p |-> Val(service.pool)]]
         ELSE [service EXCEPT !.calls[c] =
                  [pc |-> "creating", op |-> "initialize", p |-> 0]]
    /\ response' = NoResponse
    /\ UNCHANGED <<experts, clock, embeddedSinceUpdate>>

\* The health check returns: initialize is done when SELECT 1 succeeded;
\* otherwise close() runs up to its await of self.pool.close() (or straight
\* through when self.pool is None by now).
initialize_health(c, healthy) ==
    /\ service.calls[c].pc = "health"
    /\ healthy => (PoolOpen(service.calls[c].p) /\ service.db_up)
    /\ service' =
         IF healthy
         THEN [service EXCEPT !.calls[c] = IdleCall]
         ELSE IF service.pool # Null
         THEN [service EXCEPT
                  !.pools = ClosePool(@, Val(service.pool)),
                  !.calls[c] = [pc |-> "closing", op |-> "initialize",
                                p |-> Val(service.pool)]]
         ELSE [service EXCEPT !.calls[c] =
                  [pc |-> "creating", op |-> "initialize", p |-> 0]]
    /\ response' = NoResponse
    /\ UNCHANGED <<experts, clock, embeddedSinceUpdate>>

\* close(), up to its await of self.pool.close().
close_begin(c) ==
    /\ service.calls[c].pc = "idle"
    /\ service.pool # Null
    /\ service' =
         [service EXCEPT
             !.pools = ClosePool(@, Val(service.pool)),
             !.calls[c] = [pc |-> "closing", op |-> "close", p |-> Val(service.pool)]]
    /\ response' = NoResponse
    /\ UNCHANGED <<experts, clock, embeddedSinceUpdate>>

\* close() after the await: self.pool = None; initialize goes on to
\* create_pool.
close_end(c) ==
    /\ service.calls[c].pc = "closing"
    /\ service' =
         [service EXCEPT
             !.pool = Null,
             !.calls[c] = IF service.calls[c].op = "initialize"
                          THEN [pc |-> "creating", op |-> "initialize", p |-> 0]
                          ELSE IdleCall]
    /\ response' = NoResponse
    /\ UNCHANGED <<experts, clock, embeddedSinceUpdate>>

\* self.pool = await asyncpg.create_pool(...); on failure self.pool = None and
\* the error is raised.
create_pool(c, created) ==
    /\ service.calls[c].pc = "creating"
    /\ created => (Len(service.pools) < MaxPools /\ service.db_up)
    /\ service' =
         IF created
         THEN [service EXCEPT
                  !.pools = Append(@, "open"),
                  !.pool = Some(Len(service.pools) + 1),
                  !.calls[c] = IdleCall]
         ELSE [service EXCEPT !.pool = Null, !.calls[c] = IdleCall]
    /\ response' = NoResponse
    /\ UNCHANGED <<experts, clock, embeddedSinceUpdate>>

\* get_connection(), up to its await of self.pool.acquire().
get_connection_begin(c) ==
    /\ service.calls[c].pc = "idle"
    /\ service.pool # Null
    /\ service' = [service EXCEPT !.calls[c] =
                      [pc |-> "acquiring", op |-> "query", p |-> Val(service.pool)]]
    /\ UNCHANGED storeVars

\* The operation got its connection, ran and released it, or failed.
get_connection_end(c) ==
    /\ service.calls[c].pc = "acquiring"
    /\ service' = [service EXCEPT !.calls[c] = IdleCall]
    /\ UNCHANGED storeVars

\* Mutant: an unavailable store is answered as a query without rows.
Unavailable_NoRows(op) == [op |-> op, rows |-> <<>>]

\* get_connection raises RuntimeError("Database not initialized") when
\* self.pool is None; a failing acquire or query raises the driver's error.
\* Neither is caught by the DatabaseService method.
Unavailable(op) ==
    [op |-> "error", of |-> op,
     cause |-> IF service.pool = Null THEN "RuntimeError" ELSE "driver error"]

\* search_similar_experts called on the service as it is.
db_search(query_embedding, limit, threshold, filters) ==
    IF StoreAvailable
    THEN search_similar_experts(query_embedding, limit, threshold, filters)
    ELSE /\ response = NoResponse
         /\ response' = Unavailable("search")
         /\ UNCHANGED <<experts, clock, embeddedSinceUpdate>>

\* get_experts_needing_embeddings called on the service as it is.
db_stale ==
    IF StoreAvailable
    THEN get_experts_needing_embeddings
    ELSE /\ response = NoResponse
         /\ response' = Unavailable("stale")
         /\ UNCHANGED <<experts, clock, embeddedSinceUpdate>>

\* update_expert_embedding called on the service as it is.
db_update(expert_id, embedding, text) ==
    IF StoreAvailable
    THEN update_expert_embedding(expert_id, embedding, text)
    ELSE /\ response' = Unavailable("update")
         /\ UNCHANGED <<experts, clock, embeddedSinceUpdate>>

----------------------------------------------------------------------------
(* The HTTP endpoints of main.py *)

\* fastapi.HTTPException, a subclass of Exception.
HTTPException(status_code, detail) ==
    [kind |-> "raised", exception |-> "HTTPException",
     status_code |-> status_code, detail |-> detail]

\* The value an endpoint returns, answered with status 200.
Returned(body) == [kind |-> "returned", status_code |-> 200, body |-> body]

\* str(e) of an exception.
ExceptionText(e) ==
    IF e.exception = "HTTPException" THEN <<e.status_code, e.detail>> ELSE <<e.exception>>

\* try: ... except Exception as e: raise HTTPException(status_code=500,
\* detail=f"{prefix}: {str(e)}").  Every exception raised in the body is
\* caught, an HTTPException included.
ExceptException(outcome, prefix) ==
    IF outcome.kind = "raised"
    THEN HTTPException(500, <<prefix>> \o ExceptionText(outcome))
    ELSE outcome

\* A SearchFilters object of models/search_models.py with the fields given;
\* the fields left out are None.
SearchFilters(fields) == [model |-> "SearchFilters", fields |-> fields]

\* SearchRequest.filters: None or a SearchFilters object.
RequestFilters ==
    {NoFilters,
     SearchFilters([domain |-> Null]),
     SearchFilters([domain |-> Some("AI")]),
     SearchFilters([min_rating |-> Some(48), availability |-> Null])}

\* bool(filters) of `if filters:` on SearchRequest.filters: None is falsy, a
\* pydantic object is truthy whatever its fields.
FiltersTruthy(filters) == filters # NoFilters

\* The body of semantic_search up to the rows: search_similar_experts calls
\* filters.get(...) while it builds the query, and a SearchFilters object
\* has no attribute get.
SearchBody(filters, rows) ==
    IF FiltersTruthy(filters) /\ "model" \in DOMAIN filters
    THEN Raised("AttributeError")
    ELSE Returned(rows)

\* POST /search
semantic_search(query_embedding, limit, threshold, filters) ==
    /\ response = NoResponse
    /\ \E p \in SearchRowOrders(experts, query_embedding, threshold, NoFilters) :
        response' =
            [op |-> "POST /search",
             query_embedding |-> query_embedding,
             filters |-> filters,
             outcome |->
                 ExceptException(
                     SearchBody(filters,
                                [i \in 1..Len(ApplyLimit(p, limit)) |->
                                    SearchRow(experts, p[i], query_embedding)]),
                     "Search failed")]
    /\ UNCHANGED <<experts, clock, embeddedSinceUpdate>>

\* The body of the endpoint update_expert_embedding: initialize and
\* get_expert_for_embedding on the store, the 404 for a missing row, the
\* encoder, the UPDATE.
UpdateBody(expert_id, store_ok, encoder_ok) ==
    IF ~store_ok THEN Raised("PostgresError")
    ELSE IF ~experts[expert_id].exists THEN HTTPException(404, "Expert not found")
    ELSE IF ~encoder_ok THEN Raised("RuntimeError")
    ELSE Returned([message |-> "Embedding updated successfully", expert_id |-> expert_id])

\* POST /experts/{expert_id}/embedding
update_expert_embedding_endpoint(expert_id, in, store_ok, encoder_ok) ==
    LET body == UpdateBody(expert_id, store_ok, encoder_ok)
        written == body.kind = "returned" /\ UpdateApplies(expert_id)
    IN
    /\ experts' =
         IF written
         THEN [experts EXCEPT ![expert_id].embedding = Some(in.vec),
                              ![expert_id].embedding_text = Some(in.text),
                              ![expert_id].embedding_updated_at =
                                  Some(EmbeddingTimestamp(clock))]
         ELSE experts
    /\ embeddedSinceUpdate' =
         IF written
         THEN [embeddedSinceUpdate EXCEPT ![expert_id] = TRUE]
         ELSE embeddedSinceUpdate
    /\ response' = [op |-> "POST /experts/{expert_id}/embedding",
                    expert_id |-> expert_id,
                    store_ok |-> store_ok,
                    outcome |-> ExceptException(body, "Update failed")]
    /\ UNCHANGED clock

----------------------------------------------------------------------------
(* Embedding regeneration interleaved with profile edits: the loop body of  *)
(* generate_batch_embeddings and the endpoint update_expert_embedding of    *)
(* main.py.  The platform edits the rows from a process of its own.         *)

IdleJob == [pc |-> "idle", e |-> 0, content |-> 0]

\* regen.content[e] numbers the profile content of expert e; regen.job[c] is
\* the regeneration caller c has in flight.
NoRegen == [content |-> [e \in ExpertIds |-> 0], job |-> [c \in Callers |-> IdleJob]]

\* EmbeddingService.build_expert_text on the row read: the text is a function
\* of the content of the row.
build_expert_text(content) == <<"Name: A", "Experience: ", content>>

\* The platform rewrites the profile content of expert e, at a time later
\* than every statement before it.
EditProfile(e) ==
    /\ experts[e].exists
    /\ clock < MaxClock
    /\ clock' = clock + 1
    /\ experts' = [experts EXCEPT ![e].updated_at = clock + 1]
    /\ embeddedSinceUpdate' = [embeddedSinceUpdate EXCEPT ![e] = FALSE]
    /\ regen' = [regen EXCEPT !.content[e] = @ + 1]
    /\ response' = NoResponse

\* The SELECT of the regeneration: get_experts_needing_embeddings (stale_only,
\* the batch) or get_expert_for_embedding (the endpoint) returns the content
\* of expert e as it is now.
regenerate_read(c, e, stale_only) ==
    /\ regen.job[c].pc = "idle"
    /\ experts[e].exists
    /\ e \in (IF stale_only THEN Range(StaleRows(experts)) ELSE Existing)
    /\ regen' = [regen EXCEPT !.job[c] =
                     [pc |-> "read", e |-> e, content |-> regen.content[e]]]
    /\ response' = NoResponse
    /\ UNCHANGED <<experts, clock, embeddedSinceUpdate>>

\* await embedding_svc.generate_embedding(text_representation)
regenerate_encode(c) ==
    /\ regen.job[c].pc = "read"
    /\ regen' = [regen EXCEPT !.job[c].pc = "encoded"]
    /\ response' = NoResponse
    /\ UNCHANGED <<experts, clock, embeddedSinceUpdate>>

\* await db_svc.update_expert_embedding(expert_id, embedding, text) with the
\* text and the embedding of the content that was read.
regenerate_write(c) ==
    /\ regen.job[c].pc = "encoded"
    /\ update_expert_embedding(regen.job[c].e, regen.job[c].content,
                               build_expert_text(regen.job[c].content))
    /\ regen' = [regen EXCEPT !.job[c] = IdleJob]

----------------------------------------------------------------------------
(* Batch re-embedding: the endpoint generate_batch_embeddings of main.py and *)
(* the script generate_all_expert_embeddings of jobs/generate_embeddings.py. *)
(* batch.tally holds the counters of the run, batch.outcomes what happened   *)
(* to each expert handled so far, batch.report the tally the run reported    *)
(* (returned by the endpoint, printed by the script), batch.result the value *)
(* the call returned.                                                        *)

Jobs == {"endpoint", "script"}

\* What handling one expert can come to: the embedding is written, the text
\* is empty, or build_expert_text, generate_embedding or
\* update_expert_embedding raises.
Outcomes == {"updated", "no_content", "text_error", "encode_error", "write_error"}

ErrorOutcomes == {"text_error", "encode_error", "write_error"}

\* if processed % 5 == 0
ProgressEvery == 5

\* The experts table a batch run finds: ids 1..NBatch.
BatchIds == 1..NBatch

\* The text build_expert_text returns for an expert with content, and its
\* embedding.
BatchInput(e) ==
    CHOOSE in \in EmbeddingInputs : in.vec = <<0, 1, 4>>[(e % 3) + 1]

\* The counters at the start of the loop; the endpoint has no skipped counter.
StartTally(job) ==
    IF job = "script"
    THEN [processed |-> 0, updated |-> 0, errors |-> 0, skipped |-> 0]
    ELSE [processed |-> 0, updated |-> 0, errors |-> 0]

\* The text is empty: the endpoint continues without counting, the script
\* counts the expert as skipped and processed.
AfterSkip(job, tally) ==
    IF job = "script"
    THEN [tally EXCEPT !.skipped = @ + 1, !.processed = @ + 1]
    ELSE tally

\* except Exception: errors += 1; processed += 1
AfterError(tally) == [tally EXCEPT !.errors = @ + 1, !.processed = @ + 1]

\* The progress line of the script calls .toFixed on a float, which raises
\* AttributeError inside the try of the expert just updated; the endpoint's
\* progress line only prints.
ProgressRaises(job, tally) ==
    /\ job = "script"
    /\ tally.processed % ProgressEvery = 0

\* updated += 1; processed += 1; then the progress indicator.
AfterUpdate(job, tally) ==
    LET counted == [tally EXCEPT !.updated = @ + 1, !.processed = @ + 1] IN
    IF ProgressRaises(job, counted) THEN AfterError(counted) ELSE counted

\* Mutant: an exception raised for one expert leaves the loop (no try / except
\* around the body).
CaughtError_Propagates(b, outcome) == [b EXCEPT !.pc = "raised"]

\* The except clause of the loop body: the error is counted and the loop goes
\* on with the next expert.
CaughtError(b, outcome) ==
    [b EXCEPT !.tally = AfterError(@), !.outcomes = Append(@, outcome)]

\* One iteration of the loop, on the batch record.
HandleExpert(b, outcome) ==
    CASE outcome = "updated" ->
            [b EXCEPT !.tally = AfterUpdate(b.job, @), !.outcomes = Append(@, outcome)]
      [] outcome = "no_content" ->
            [b EXCEPT !.tally = AfterSkip(b.job, @), !.outcomes = Append(@, outcome)]
      [] OTHER -> CaughtError(b, outcome)

\* The services are initialized and get_experts_needing_embeddings returned;
\* the script returns a zero tally at once for an empty list.
StartBatch(job) ==
    /\ batch = NoBatch
    /\ LET todo == StaleRows(experts) IN
        batch' =
            IF job = "script" /\ todo = <<>>
            THEN [pc |-> "returned", job |-> job, todo |-> todo, outcomes |-> <<>>,
                  tally |-> StartTally(job), report |-> Some(StartTally(job)),
                  result |-> Some(StartTally(job))]
            ELSE [pc |-> "loop", job |-> job, todo |-> todo, outcomes |-> <<>>,
                  tally |-> StartTally(job), report |-> Null, result |-> Null]
    /\ UNCHANGED <<storeVars, columns>>

\* The loop body for the next expert of the list.
ProcessExpert(outcome) ==
    /\ batch.pc = "loop"
    /\ Len(batch.outcomes) < Len(batch.todo)
    /\ LET e == batch.todo[Len(batch.outcomes) + 1] IN
        IF outcome = "updated"
        THEN update_expert_embedding(e, BatchInput(e).vec, BatchInput(e).text)
        ELSE UNCHANGED storeVars
    /\ batch' = HandleExpert(batch, outcome)
    /\ UNCHANGED columns

\* After the loop: the endpoint returns its tally; the script prints its
\* summary and then evaluates '='.repeat(60), which raises AttributeError,
\* caught by the outer except and raised again.
FinishBatch ==
    /\ batch.pc = "loop"
    /\ Len(batch.outcomes) = Len(batch.todo)
    /\ batch' =
         IF batch.job = "script"
         THEN [batch EXCEPT !.pc = "raised", !.report = Some(batch.tally)]
         ELSE [batch EXCEPT !.pc = "returned", !.report = Some(batch.tally),
                            !.result = Some(batch.tally)]
    /\ UNCHANGED <<storeVars, columns>>

----------------------------------------------------------------------------
(* Documents of the aggregator.  A document is a Python dict: a record whose *)
(* domain is the set of keys it carries.  Text is a sequence of tokens, ""   *)
(* being the empty sequence.  years_experience is in tenths of a year.       *)

\* doc.get(key, default)
Get(doc, key, default) == IF key \in DOMAIN doc THEN doc[key] ELSE default

\* The records the data-collection flow of app-new.py builds (raw_text, no
\* full_text, a name only for GitHub), and records carrying the structured
\* fields the aggregator reads.
DocUniverse ==
    {[source_type |-> "resume", raw_text |-> <<"resume text">>],
     [source_type |-> "portfolio", raw_text |-> <<>>],
     [source_type |-> "github", name |-> "", raw_text |-> <<"github text">>],
     [source_type |-> "resume", name |-> "Alice", skills |-> <<"Python", "React">>,
      years_experience |-> 20, full_text |-> <<"alice cv">>],
     [source_type |-> "portfolio", name |-> "Bob", skills |-> <<"python", "AWS">>,
      years_experience |-> 15, full_text |-> <<"bob site">>,
      certifications |-> <<"AWS">>],
     [source_type |-> "research", name |-> "Unknown", research_titles |-> <<"T1", "T2">>,
      paper_count |-> 2, research_summary |-> <<"two", "papers">>],
     [source_type |-> "engagement", name |-> "Bob", skills |-> <<"aws", "React", "AWS">>,
      research_titles |-> <<"T2">>, top_topics |-> <<"ml", "rust", "t3", "t4", "t5", "t6", "t7", "t8", "t9", "t10", "t11">>,
      research_summary |-> <<"short">>, upvotes |-> 3],
     [name |-> "Alice", skills |-> <<"PYTHON">>, github_languages |-> <<"rust", "t11">>,
      github_stars |-> 10, github_repos |-> 5, certifications |-> <<"aws">>]}

\* str.lower() on the strings of the model.
Lower(str) ==
    CASE str \in {"Python", "python", "PYTHON"} -> "python"
      [] str \in {"React", "react"} -> "react"
      [] str \in {"AWS", "aws"} -> "aws"
      [] OTHER -> str

----------------------------------------------------------------------------
(* Python containers *)

RECURSIVE Flatten(_)
\* list.extend over a list of lists.
Flatten(lists) ==
    IF lists = <<>> THEN <<>> ELSE Head(lists) \o Flatten(Tail(lists))

\* list.count(x)
Count(list, x) == Cardinality({i \in 1..Len(list) : list[i] = x})

RECURSIVE Distinct(_)
\* The keys of Counter(list): the distinct elements in first-seen order.
Distinct(list) ==
    IF list = <<>> THEN <<>>
    ELSE LET front == Distinct(SubSeq(list, 1, Len(list) - 1))
             last == list[Len(list)]
         IN IF last \in Range(front) THEN front ELSE Append(front, last)

\* Mutant: an unstable sort, x overtakes the elements of equal count.
InsertByCount_TiesReversed(sorted, x, list) ==
    LET k == Cardinality({i \in 1..Len(sorted) : Count(list, sorted[i]) > Count(list, x)})
    IN SubSeq(sorted, 1, k) \o <<x>> \o SubSeq(sorted, k + 1, Len(sorted))

\* Insert x behind every element whose count is at least x's.
InsertByCount(sorted, x, list) ==
    LET k == Cardinality({i \in 1..Len(sorted) : Count(list, sorted[i]) >= Count(list, x)})
    IN SubSeq(sorted, 1, k) \o <<x>> \o SubSeq(sorted, k + 1, Len(sorted))

RECURSIVE SortByCount(_, _)
\* sorted(counter.items(), key=count, reverse=True): stable, descending.
SortByCount(keys, list) ==
    IF keys = <<>> THEN <<>>
    ELSE InsertByCount(SortByCount(SubSeq(keys, 1, Len(keys) - 1), list),
                       keys[Len(keys)], list)

\* Counter(list).most_common(): the keys by descending count.
MostCommon(list) == SortByCount(Distinct(list), list)

\* The order in which a set of strings is iterated.  It follows the string
\* hashes, which the interpreter salts with a per-process seed.
StringRank(str) ==
    CASE str = "" -> 1
      [] str = "Alice" -> 2
      [] str = "Bob" -> 3
      [] str = "Unknown" -> 4
      [] str = "T1" -> 5
      [] str = "T2" -> 6
      [] str = "resume" -> 7
      [] str = "portfolio" -> 8
      [] str = "github" -> 9
      [] str = "research" -> 10
      [] str = "engagement" -> 11
      [] OTHER -> 12

HashSeeds == {0, 1}

\* list(set): the elements of S in the iteration order of the process.
SetToList(S, seed) ==
    CHOOSE p \in Orderings(S) :
        \A i, j \in 1..Len(p) : i < j =>
            IF seed = 0 THEN StringRank(p[i]) < StringRank(p[j])
                        ELSE StringRank(p[i]) > StringRank(p[j])

\* max(list, key=...): the first element whose key is the largest; keys[i] is
\* the key of list[i].
MaxFirst(list, keys) ==
    list[CHOOSE i \in 1..Len(list) :
             /\ \A j \in 1..Len(list) : keys[j] <= keys[i]
             /\ \A j \in 1..(i - 1) : keys[j] < keys[i]]

RECURSIVE Sum(_)
Sum(list) == IF list = <<>> THEN 0 ELSE Head(list) + Sum(Tail(list))

RECURSIVE Join(_, _)
\* separator.join(texts)
Join(texts, separator) ==
    IF texts = <<>> THEN <<>>
    ELSE IF Len(texts) = 1 THEN texts[1]
    ELSE texts[1] \o <<separator>> \o Join(Tail(texts), separator)

\* [doc.get(key, default) for doc in docs]
Field(docs, key, default) == [i \in 1..Len(docs) |-> Get(docs[i], key, default)]

----------------------------------------------------------------------------
(* DocumentAggregator *)

AllSkills(docs) == Flatten(Field(docs, "skills", <<>>))

\* Mutant: the skills are counted as written, without lower().
SkillKeys_AsWritten(all_skills) == all_skills

\* The list the Counter of merge_skills is built from.
SkillKeys(all_skills) == [i \in 1..Len(all_skills) |-> Lower(all_skills[i])]

\* Mutant: only the two most common skills are kept (most_common(2)).
merge_skills_TopTwo(docs) == Take(MostCommon(SkillKeys(AllSkills(docs))), 2)

merge_skills(docs) == MostCommon(SkillKeys(AllSkills(docs)))

MaxOf(S) == CHOOSE m \in S : \A x \in S : x <= m

\* Mutant: the years of the documents are added up.
merge_experience_Sum(docs) == Sum(Field(docs, "years_experience", 0))

merge_experience(docs) ==
    LET years_list == Field(docs, "years_experience", 0)
    IN IF years_list # <<>> THEN MaxOf(Range(years_list)) ELSE 0

merge_certifications(docs) ==
    LET certs == Flatten(Field(docs, "certifications", <<>>))
    IN Cardinality({Lower(certs[i]) : i \in 1..Len(certs)})

SumField(docs, key) == Sum(Field(docs, key, 0))

\* if doc.get('research_summary')
HasSummary(doc) == Get(doc, "research_summary", <<>>) # <<>>

\* list(set(all_titles))
ResearchTitles(docs, seed) ==
    SetToList(Range(Flatten(Field(docs, "research_titles", <<>>))), seed)

merge_research(docs, seed) ==
    LET summaries == Field(SelectSeq(docs, HasSummary), "research_summary", <<>>) IN
    [paper_count |-> SumField(docs, "paper_count"),
     patent_count |-> SumField(docs, "patent_count"),
     research_titles |-> ResearchTitles(docs, seed),
     research_summary |-> IF summaries # <<>>
                          THEN MaxFirst(summaries,
                                        [i \in 1..Len(summaries) |-> Len(summaries[i])])
                          ELSE <<>>]

TopTopicsLimit == 10

\* Mutant: the list is cut to the limit before the topics are counted.
_merge_topics_CutFirst(docs) ==
    LET all_topics == Flatten([i \in 1..Len(docs) |->
                          Get(docs[i], "top_topics", <<>>)
                              \o Get(docs[i], "github_languages", <<>>)])
    IN MostCommon(Take(all_topics, TopTopicsLimit))

_merge_topics(docs) ==
    LET all_topics == Flatten([i \in 1..Len(docs) |->
                          Get(docs[i], "top_topics", <<>>)
                              \o Get(docs[i], "github_languages", <<>>)])
    IN Take(MostCommon(all_topics), TopTopicsLimit)

merge_engagement(docs) ==
    [blog_post_count |-> SumField(docs, "blog_post_count"),
     community_answers |-> SumField(docs, "community_answers"),
     upvotes |-> SumField(docs, "upvotes"),
     github_repos |-> SumField(docs, "github_repos"),
     github_stars |-> SumField(docs, "github_stars"),
     github_commits |-> SumField(docs, "github_commits"),
     top_topics |-> _merge_topics(docs)]

\* doc.get('name') != 'Unknown' (None, for a missing key, differs from 'Unknown')
NameNotUnknown(doc) == "name" \notin DOMAIN doc \/ doc.name # "Unknown"

\* names = [doc.get('name', 'Unknown') for doc in documents
\*          if doc.get('name') != 'Unknown']
NameVotes(docs) == Field(SelectSeq(docs, NameNotUnknown), "name", "Unknown")

\* max(set(names), key=names.count) if names else 'Unknown'
MostCommonName(names, seed) ==
    IF names = <<>> THEN "Unknown"
    ELSE LET candidates == SetToList(Range(names), seed)
         IN MaxFirst(candidates,
                     [i \in 1..Len(candidates) |-> Count(names, candidates[i])])

DocumentSeparator == "\n\n---DOCUMENT SEPARATOR---\n\n"

\* if doc.get('full_text')
HasFullText(doc) == Get(doc, "full_text", <<>>) # <<>>

\* [doc.get('full_text', '') for doc in documents if doc.get('full_text')]
FullTexts(docs) == Field(SelectSeq(docs, HasFullText), "full_text", <<>>)

SourceTypes(docs, seed) ==
    SetToList(Range(Field(docs, "source_type", "unknown")), seed)

\* Mutant: the empty profile carries an empty name.
_empty_profile_NoName ==
    [name |-> "",
     full_text |-> <<>>,
     years_experience |-> 0,
     skills |-> <<>>,
     skill_count |-> 0,
     certification_count |-> 0,
     paper_count |-> 0,
     patent_count |-> 0,
     research_titles |-> <<>>,
     research_summary |-> <<>>,
     blog_post_count |-> 0,
     community_answers |-> 0,
     upvotes |-> 0,
     github_repos |-> 0,
     github_stars |-> 0,
     github_commits |-> 0,
     top_topics |-> <<>>,
     document_count |-> 0,
     source_types |-> <<>>]

_empty_profile ==
    [name |-> "Unknown",
     full_text |-> <<>>,
     years_experience |-> 0,
     skills |-> <<>>,
     skill_count |-> 0,
     certification_count |-> 0,
     paper_count |-> 0,
     patent_count |-> 0,
     research_titles |-> <<>>,
     research_summary |-> <<>>,
     blog_post_count |-> 0,
     community_answers |-> 0,
     upvotes |-> 0,
     github_repos |-> 0,
     github_stars |-> 0,
     github_commits |-> 0,
     top_topics |-> <<>>,
     document_count |-> 0,
     source_types |-> <<>>]

\* Mutant: skill_count counts the skills as declared, duplicates included.
aggregate_profile_DeclaredSkills(docs, seed) ==
    IF docs = <<>> THEN _empty_profile
    ELSE [_empty_profile EXCEPT !.skills = merge_skills(docs),
                                !.skill_count = Len(AllSkills(docs)),
                                !.document_count = Len(docs)]

aggregate_profile(docs, seed) ==
    IF docs = <<>> THEN _empty_profile
    ELSE
    LET skills == merge_skills(docs)
        research_data == merge_research(docs, seed)
        engagement_data == merge_engagement(docs)
    IN
    [name |-> MostCommonName(NameVotes(docs), seed),
     full_text |-> Join(FullTexts(docs), DocumentSeparator),
     years_experience |-> merge_experience(docs),
     skills |-> skills,
     skill_count |-> Len(skills),
     certification_count |-> merge_certifications(docs),
     paper_count |-> research_data.paper_count,
     patent_count |-> research_data.patent_count,
     research_titles |-> research_data.research_titles,
     research_summary |-> research_data.research_summary,
     blog_post_count |-> engagement_data.blog_post_count,
     community_answers |-> engagement_data.community_answers,
     upvotes |-> engagement_data.upvotes,
     github_repos |-> engagement_data.github_repos,
     github_stars |-> engagement_data.github_stars,
     github_commits |-> engagement_data.github_commits,
     top_topics |-> engagement_data.top_topics,
     document_count |-> Len(docs),
     source_types |-> SourceTypes(docs, seed)]

----------------------------------------------------------------------------
(* calculate_document_coverage_score *)

\* The source types the data-collection flow writes, and a document record
\* without the key.
CoverageDocs ==
    {[source_type |-> "resume"], [source_type |-> "portfolio"],
     [source_type |-> "research"], [source_type |-> "github"],
     [source_type |-> "linkedin"], [name |-> "Alice"]}

\* Mutant: the documents are counted, not their distinct types.
SourceCount_Documents(docs) == Len(docs)

\* len(source_types), source_types the set of doc.get('source_type', 'unknown')
SourceCount(docs) ==
    Cardinality({Get(docs[i], "source_type", "unknown") : i \in 1..Len(docs)})

calculate_document_coverage_score_result(docs) ==
    LET source_count == SourceCount(docs) IN
    IF source_count >= 4 THEN 20
    ELSE IF source_count = 3 THEN 12
    ELSE IF source_count = 2 THEN 5
    ELSE 0

calculate_document_coverage_score(docs) ==
    /\ response = NoResponse
    /\ response' = [op |-> "calculate_document_coverage_score", documents |-> docs,
                    result |-> calculate_document_coverage_score_result(docs)]
    /\ UNCHANGED <<experts, clock, embeddedSinceUpdate>>

----------------------------------------------------------------------------
(* The aggregation session *)

NoProfile == [none |-> TRUE]

\* A data-collection step appends one document record to the session's list.
AddDocument(doc) ==
    /\ profile = NoProfile
    /\ prevProfile = NoProfile
    /\ Len(documents) < MaxDocs
    /\ documents' = Append(documents, doc)
    /\ UNCHANGED <<profile, prevProfile, hashSeed>>

\* aggregator.aggregate_profile(documents); prevProfile keeps the result of
\* the call before it on the same list.
AggregateProfile ==
    /\ profile' = aggregate_profile(documents, hashSeed)
    /\ prevProfile' = IF profile # NoProfile THEN profile ELSE prevProfile
    /\ UNCHANGED <<documents, hashSeed>>

\* The application is restarted: a new interpreter process, with a new hash
\* seed, is given the same documents; the profile saved by the old process
\* is kept for comparison.
Restart ==
    /\ profile # NoProfile
    /\ \E seed \in HashSeeds \ {hashSeed} : hashSeed' = seed
    /\ prevProfile' = profile
    /\ profile' = NoProfile
    /\ UNCHANGED documents

\* The analyze button clears the previous analysis.
ClearAnalysis ==
    /\ profile # NoProfile
    /\ documents' = <<>>
    /\ profile' = NoProfile
    /\ prevProfile' = NoProfile
    /\ UNCHANGED hashSeed

----------------------------------------------------------------------------
(* Specifications of the embedding store *)

InitAgg ==
    /\ documents = <<>>
    /\ profile = NoProfile
    /\ prevProfile = NoProfile
    /\ hashSeed = 0

\* The table has the embedding columns and no batch run was started.
InitJob ==
    /\ columns = EmbeddingColumns
    /\ batch = NoBatch

\* The service after the application's startup (lifespan): one open pool, the
\* database reachable, no call in flight; no regeneration in flight.
InitOps ==
    /\ service = StartedService
    /\ regen = NoRegen

Init == InitStore /\ InitAgg /\ InitJob /\ InitOps

\* The experts table before add_semantic_search_columns ran.
InitUnmigrated ==
    /\ InitStore
    /\ InitAgg
    /\ columns = {}
    /\ batch = NoBatch
    /\ InitOps

\* Searching: seeding, embedding writes and searches.
NextSearch ==
    \/ SeedExpert /\ UNCHANGED <<aggVars, jobVars, opsVars>>
    \/ \E e \in ExpertIds, in \in EmbeddingInputs :
           update_expert_embedding(e, in.vec, in.text) /\ UNCHANGED <<aggVars, jobVars, opsVars>>
    \/ \E q \in Vectors, limit \in 0..MaxLimit, threshold \in Thresholds, f \in FilterChoices :
           search_similar_experts(q, limit, threshold, f) /\ UNCHANGED <<aggVars, jobVars, opsVars>>

SpecSearch == Init /\ [][NextSearch]_vars

\* The filters of the searches that are repeated.
RepeatFilters == {NoFilters, [domain |-> Some("AI")]}

\* Searches followed by the same search on the unchanged store.
NextRepeat ==
    \/ SeedExpert /\ UNCHANGED <<aggVars, jobVars, opsVars>>
    \/ \E e \in ExpertIds, in \in EmbeddingInputs :
           update_expert_embedding(e, in.vec, in.text) /\ UNCHANGED <<aggVars, jobVars, opsVars>>
    \/ \E q \in Vectors, limit \in 0..MaxLimit, threshold \in Thresholds, f \in RepeatFilters :
           search_similar_experts(q, limit, threshold, f) /\ UNCHANGED <<aggVars, jobVars, opsVars>>
    \/ search_similar_experts_again /\ UNCHANGED <<aggVars, jobVars, opsVars>>

SpecRepeat == Init /\ [][NextRepeat]_vars

\* Staleness: seeding, profile edits, embedding writes and the staleness query.
NextStale ==
    \/ SeedExpert /\ UNCHANGED <<aggVars, jobVars, opsVars>>
    \/ Tick /\ UNCHANGED <<aggVars, jobVars, opsVars>>
    \/ \E e \in ExpertIds : ProfileUpdate(e) /\ UNCHANGED <<aggVars, jobVars, opsVars>>
    \/ \E e \in ExpertIds : update_expert_embedding(e, 0, "Name: A") /\ UNCHANGED <<aggVars, jobVars, opsVars>>
    \/ get_experts_needing_embeddings /\ UNCHANGED <<aggVars, jobVars, opsVars>>

SpecStale == Init /\ [][NextStale]_vars

\* Seeding, the migration and embedding writes on a table that starts without
\* the embedding columns.
NextSchema ==
    \/ SeedExpert /\ UNCHANGED <<aggVars, jobVars, opsVars>>
    \/ Tick /\ UNCHANGED <<aggVars, jobVars, opsVars>>
    \/ \E c \in EmbeddingColumns : add_semantic_search_columns(c) /\ UNCHANGED <<aggVars, opsVars>>
    \/ \E e \in ExpertIds, in \in EmbeddingInputs :
           update_expert_embedding(e, in.vec, in.text) /\ UNCHANGED <<aggVars, jobVars, opsVars>>

SpecSchema == InitUnmigrated /\ [][NextSchema]_vars

\* A platform table of up to NBatch experts, none of them embedded yet.
InitBatch ==
    /\ \E n \in 0..NBatch :
           experts = [e \in BatchIds |-> IF e <= n THEN NewExpertRow(0) ELSE NoRow]
    /\ clock = 0
    /\ response = NoResponse
    /\ embeddedSinceUpdate = [e \in BatchIds |-> FALSE]
    /\ InitAgg
    /\ InitJob
    /\ InitOps

\* One batch re-embedding run.
NextBatch ==
    \/ \E job \in Jobs : StartBatch(job) /\ UNCHANGED <<aggVars, opsVars>>
    \/ \E outcome \in Outcomes : ProcessExpert(outcome) /\ UNCHANGED <<aggVars, opsVars>>
    \/ FinishBatch /\ UNCHANGED <<aggVars, opsVars>>

SpecBatch == InitBatch /\ [][NextBatch]_vars

\* Calls of the encoders, of calculate_similarity and of
\* calculate_document_coverage_score on inputs of the bounded sets.
NextPure ==
    \/ /\ response = NoResponse
       /\ \E text \in Texts : encode_document(text)
       /\ UNCHANGED <<aggVars, jobVars, opsVars>>
    \/ /\ response = NoResponse
       /\ \E text \in Texts, ready \in BOOLEAN : generate_embedding(text, ready)
       /\ UNCHANGED <<aggVars, jobVars, opsVars>>
    \/ /\ response = NoResponse
       /\ \E a, b \in FloatVectors : calculate_similarity(a, b)
       /\ UNCHANGED <<aggVars, jobVars, opsVars>>
    \/ /\ response = NoResponse
       /\ \E docs \in SeqsUpTo(CoverageDocs, MaxSources) :
              calculate_document_coverage_score(docs)
       /\ UNCHANGED <<aggVars, jobVars, opsVars>>

SpecPure == Init /\ [][NextPure]_vars

\* Requests that call initialize, close and get_connection on the started
\* service, interleaved at their awaits.
NextPool ==
    \/ \E c \in Callers : initialize_begin(c) /\ UNCHANGED <<aggVars, jobVars, regen>>
    \/ \E c \in Callers, healthy \in BOOLEAN :
           initialize_health(c, healthy) /\ UNCHANGED <<aggVars, jobVars, regen>>
    \/ \E c \in Callers : close_begin(c) /\ UNCHANGED <<aggVars, jobVars, regen>>
    \/ \E c \in Callers : close_end(c) /\ UNCHANGED <<aggVars, jobVars, regen>>
    \/ \E c \in Callers, created \in BOOLEAN :
           create_pool(c, created) /\ UNCHANGED <<aggVars, jobVars, regen>>
    \/ \E c \in Callers : get_connection_begin(c) /\ UNCHANGED <<aggVars, jobVars, regen>>
    \/ \E c \in Callers : get_connection_end(c) /\ UNCHANGED <<aggVars, jobVars, regen>>

SpecPool == Init /\ [][NextPool]_vars

NextApi ==
    \/ SeedExpert /\ UNCHANGED <<aggVars, jobVars, opsVars>>
    \/ \E e \in ExpertIds, in \in EmbeddingInputs, store_ok \in BOOLEAN, encoder_ok \in BOOLEAN :
           update_expert_embedding_endpoint(e, in, store_ok, encoder_ok)
               /\ UNCHANGED <<aggVars, jobVars, opsVars>>
    \/ \E q \in Vectors, limit \in 0..MaxLimit, f \in RequestFilters :
           semantic_search(q, limit, -100, f) /\ UNCHANGED <<aggVars, jobVars, opsVars>>

SpecApi == Init /\ [][NextApi]_vars

\* One regeneration at a time beside the platform's edits.
NextRegen ==
    \/ SeedExpert /\ UNCHANGED <<aggVars, jobVars, opsVars>>
    \/ \E e \in ExpertIds : EditProfile(e) /\ UNCHANGED <<aggVars, jobVars, service>>
    \/ \E e \in ExpertIds, stale_only \in BOOLEAN :
           regenerate_read(1, e, stale_only) /\ UNCHANGED <<aggVars, jobVars, service>>
    \/ regenerate_encode(1) /\ UNCHANGED <<aggVars, jobVars, service>>
    \/ regenerate_write(1) /\ UNCHANGED <<aggVars, jobVars, service>>

SpecRegen == Init /\ [][NextRegen]_vars

\* A service that was only constructed.
InitConstructed ==
    /\ InitStore
    /\ InitAgg
    /\ InitJob
    /\ service = NewService
    /\ regen = NoRegen

\* One caller initializes and closes the service while the store is queried
\* and written, and the database goes down and comes back.
NextAvail ==
    \/ service.db_up /\ SeedExpert /\ UNCHANGED <<aggVars, jobVars, opsVars>>
    \/ DatabaseFlips /\ UNCHANGED <<aggVars, jobVars, regen>>
    \/ initialize_begin(1) /\ UNCHANGED <<aggVars, jobVars, regen>>
    \/ \E healthy \in BOOLEAN :
           initialize_health(1, healthy) /\ UNCHANGED <<aggVars, jobVars, regen>>
    \/ close_begin(1) /\ UNCHANGED <<aggVars, jobVars, regen>>
    \/ close_end(1) /\ UNCHANGED <<aggVars, jobVars, regen>>
    \/ \E created \in BOOLEAN :
           create_pool(1, created) /\ UNCHANGED <<aggVars, jobVars, regen>>
    \/ \E e \in ExpertIds :
           db_update(e, 0, "Name: A") /\ UNCHANGED <<aggVars, jobVars, opsVars>>
    \/ \E limit \in 0..MaxLimit :
           db_search(0, limit, -100, NoFilters) /\ UNCHANGED <<aggVars, jobVars, opsVars>>
    \/ db_stale /\ UNCHANGED <<aggVars, jobVars, opsVars>>

SpecAvail == InitConstructed /\ [][NextAvail]_vars

\* Aggregation sessions.
NextAgg ==
    \/ \E doc \in DocUniverse : AddDocument(doc) /\ UNCHANGED <<storeVars, jobVars, opsVars>>
    \/ AggregateProfile /\ UNCHANGED <<storeVars, jobVars, opsVars>>
    \/ Restart /\ UNCHANGED <<storeVars, jobVars, opsVars>>
    \/ ClearAnalysis /\ UNCHANGED <<storeVars, jobVars, opsVars>>

SpecAgg == Init /\ [][NextAgg]_vars

----------------------------------------------------------------------------
(* Claims about the embedding store *)

SearchResponded == response.op = "search"
StaleResponded == response.op = "stale"

ReturnedIds == {response.rows[i].id : i \in 1..Len(response.rows)}

\* C1: every row returned by search_similar_experts has similarity_score >=
\* the threshold of the call, and no expert whose stored embedding is NULL is
\* among the rows.
C1_SearchThresholdFilter ==
    SearchResponded =>
        \A i \in 1..Len(response.rows) :
            /\ response.rows[i].similarity_score >= response.threshold
            /\ experts[response.rows[i].id].embedding # Null

\* C1 witness: a search returned a row while one embedded expert fell below
\* the threshold and another expert has no embedding.
C1_Witness ==
    /\ SearchResponded
    /\ Len(response.rows) >= 1
    /\ \E e \in Existing \ ReturnedIds : experts[e].embedding = Null
    /\ \E e \in Existing \ ReturnedIds :
           /\ experts[e].embedding # Null
           /\ Similarity(Val(experts[e].embedding), response.query_embedding)
                  < response.threshold

\* The experts a search matches (for the claims: embedding present, score at
\* least the threshold, filters passed), sorted by descending score and, for
\* equal scores, by creation order (experts are created in id order).
RowsInCreationOrder(S, q) ==
    CHOOSE p \in Orderings(S) :
        \A i, j \in 1..Len(p) : i < j =>
            LET si == Similarity(Val(experts[p[i]].embedding), q)
                sj == Similarity(Val(experts[p[j]].embedding), q)
            IN si > sj \/ (si = sj /\ p[i] < p[j])

\* C2 (as claimed): the rows are sorted by descending similarity_score with
\* ties in creation order, and they are the first `limit` experts of that order.
C2_SortedTiesByCreation ==
    SearchResponded =>
        LET matches == SearchMatches(experts, response.query_embedding,
                                     response.threshold, response.filters)
            expected == Take(RowsInCreationOrder(matches, response.query_embedding),
                             response.limit)
        IN /\ Len(response.rows) = Len(expected)
           /\ \A i \in 1..Len(expected) : response.rows[i].id = expected[i]

\* C3: get_experts_needing_embeddings returns every expert of the store whose
\* embedding is NULL, or whose embedding_updated_at is NULL or older than its
\* updated_at, each once, and no other expert.
C3_StaleExactly ==
    StaleResponded =>
        /\ Range(response.rows) =
               {e \in ExpertIds :
                    /\ experts[e].exists
                    /\ \/ experts[e].embedding = Null
                       \/ experts[e].embedding_updated_at = Null
                       \/ Val(experts[e].embedding_updated_at) < experts[e].updated_at}
        /\ Len(response.rows) = Cardinality(Range(response.rows))

\* C3 witness: the query reported an expert whose embedding is older than its
\* profile and left out an expert whose embedding is current.
C3_Witness ==
    /\ StaleResponded
    /\ \E e \in Range(response.rows) :
           /\ experts[e].embedding # Null
           /\ Val(experts[e].embedding_updated_at) < experts[e].updated_at
    /\ \E e \in Existing \ Range(response.rows) :
           Val(experts[e].embedding_updated_at) = experts[e].updated_at

\* C4: an expert whose embedding_updated_at is older than its last profile
\* update is reported by get_experts_needing_embeddings; an expert for which
\* update_expert_embedding completed after its last profile update is not.
C4_StaleThenFresh ==
    StaleResponded =>
        \A e \in Existing :
            /\ (/\ experts[e].embedding_updated_at # Null
                /\ Val(experts[e].embedding_updated_at) < experts[e].updated_at)
                   => e \in Range(response.rows)
            /\ embeddedSinceUpdate[e] => e \notin Range(response.rows)

\* C4 witness: the query ran when one expert had been embedded after its last
\* profile write and another one was edited after its embedding was written.
C4_Witness ==
    /\ StaleResponded
    /\ \E e \in Existing :
           /\ embeddedSinceUpdate[e]
           /\ experts[e].updated_at > 0
           /\ e \notin Range(response.rows)
    /\ \E e \in Range(response.rows) :
           /\ experts[e].embedding_updated_at # Null
           /\ Val(experts[e].embedding_updated_at) < experts[e].updated_at

----------------------------------------------------------------------------
(* Claims about the aggregator *)

Aggregated == profile # NoProfile

\* The skills the documents declare, as written, in documents order.
DeclaredSkills == AllSkills(documents)

\* The index of the first element of list that equals x when lower-cased.
FirstSeen(list, x) ==
    CHOOSE i \in 1..Len(list) :
        /\ Lower(list[i]) = x
        /\ \A j \in 1..(i - 1) : Lower(list[j]) # x

\* How often x occurs in list, compared case-insensitively.
Occurrences(list, x) == Cardinality({i \in 1..Len(list) : Lower(list[i]) = x})

C6_SkillsByFrequency ==
    Aggregated =>
        /\ Range(profile.skills) = {Lower(DeclaredSkills[k]) : k \in 1..Len(DeclaredSkills)}
        /\ Len(profile.skills) = Cardinality(Range(profile.skills))
        /\ \A i, j \in 1..Len(profile.skills) : i < j =>
               LET ci == Occurrences(DeclaredSkills, profile.skills[i])
                   cj == Occurrences(DeclaredSkills, profile.skills[j])
               IN \/ ci > cj
                  \/ /\ ci = cj
                     /\ FirstSeen(DeclaredSkills, profile.skills[i])
                            < FirstSeen(DeclaredSkills, profile.skills[j])

\* C6 witness: a merged list with a skill counted more often than the next
\* one, followed by two skills of equal count.
C6_Witness ==
    /\ Aggregated
    /\ Len(profile.skills) = 3
    /\ Occurrences(DeclaredSkills, profile.skills[1])
           > Occurrences(DeclaredSkills, profile.skills[2])
    /\ Occurrences(DeclaredSkills, profile.skills[2])
           = Occurrences(DeclaredSkills, profile.skills[3])

HasRawText(doc) == Get(doc, "raw_text", <<>>) # <<>>

\* C7 (as claimed): the combined text is the non-empty raw_text of every
\* document, in input order, joined by the separator.
C7_CombinedRawText ==
    Aggregated =>
        profile.full_text =
            Join(Field(SelectSeq(documents, HasRawText), "raw_text", <<>>),
                 DocumentSeparator)

SuppliesName(doc) == "name" \in DOMAIN doc /\ doc.name # "Unknown"

\* C8 (as claimed): for a non-empty list the name is a most frequent one among
\* the names the documents supply and that differ from "Unknown"; documents
\* without a name do not vote; "Unknown" only when no document supplies one.
C8_NameMajorityOfSupplied ==
    (Aggregated /\ documents # <<>>) =>
        LET supplied == Field(SelectSeq(documents, SuppliesName), "name", "Unknown") IN
        IF supplied = <<>> THEN profile.name = "Unknown"
        ELSE /\ profile.name \in Range(supplied)
             /\ \A n \in Range(supplied) :
                    Count(supplied, n) <= Count(supplied, profile.name)

\* The index of the first occurrence of x in list.
FirstIndex(list, x) ==
    CHOOSE i \in 1..Len(list) : list[i] = x /\ \A j \in 1..(i - 1) : list[j] # x

\* C9 (as claimed): among the names tied for most frequent, the one whose
\* first occurrence is earliest in documents order is returned (stated for
\* lists in which every document supplies a name).
C9_TieFirstOccurrence ==
    (/\ Aggregated
     /\ documents # <<>>
     /\ \A i \in 1..Len(documents) : SuppliesName(documents[i])) =>
        LET votes == NameVotes(documents) IN
        \A n \in Range(votes) :
            Count(votes, n) = Count(votes, profile.name) =>
                FirstIndex(votes, profile.name) <= FirstIndex(votes, n)

\* C10 (as claimed): two calls of aggregate_profile with the same document
\* list return identical profiles.
C10_Deterministic ==
    (Aggregated /\ prevProfile # NoProfile) => profile = prevProfile

\* The years_experience the documents report, a document without the field
\* counting as 0.
ReportedYears == Field(documents, "years_experience", 0)

\* C11: years_experience is the maximum of the documents' years_experience
\* (0 for a missing field, 0 for an empty list), and it is not their sum when
\* two documents report positive years.
C11_ExperienceMax ==
    Aggregated =>
        /\ documents = <<>> => profile.years_experience = 0
        /\ documents # <<>> =>
               /\ profile.years_experience \in Range(ReportedYears)
               /\ \A i \in 1..Len(ReportedYears) :
                      ReportedYears[i] <= profile.years_experience
        /\ (\E i, j \in 1..Len(ReportedYears) :
                i # j /\ ReportedYears[i] > 0 /\ ReportedYears[j] > 0)
               => profile.years_experience # Sum(ReportedYears)

\* C11 witness: two documents reporting different positive years and one
\* without the field were merged.
C11_Witness ==
    /\ Aggregated
    /\ \E i, j, k \in 1..Len(documents) :
           /\ "years_experience" \notin DOMAIN documents[k]
           /\ ReportedYears[i] > ReportedYears[j]
           /\ ReportedYears[j] > 0
    /\ profile.years_experience = 20

NumericFields ==
    {"years_experience", "skill_count", "certification_count", "paper_count",
     "patent_count", "blog_post_count", "community_answers", "upvotes",
     "github_repos", "github_stars", "github_commits", "document_count"}

ListFields == {"skills", "research_titles", "top_topics", "source_types"}

\* C12: aggregate_profile([]) returns the empty profile: name "Unknown", empty
\* text and summary, every numeric field 0, every list field empty.
C12_EmptyInput ==
    (Aggregated /\ documents = <<>>) =>
        /\ profile.name = "Unknown"
        /\ profile.full_text = <<>>
        /\ profile.research_summary = <<>>
        /\ \A f \in NumericFields : profile[f] = 0
        /\ \A f \in ListFields : profile[f] = <<>>
        /\ DOMAIN profile =
               NumericFields \cup ListFields \cup {"name", "full_text", "research_summary"}

\* C12 witness: aggregate_profile was called on the empty list.
C12_Witness == Aggregated /\ documents = <<>>

\* C13: the skills of the profile of every prefix D1 of the document list
\* D1 + D2 are skills of the profile of the whole list.
C13_SkillUnionMonotone ==
    Aggregated =>
        \A k \in 0..Len(documents) :
            Range(aggregate_profile(SubSeq(documents, 1, k), hashSeed).skills)
                \subseteq Range(profile.skills)

\* C13 witness: a list whose first document declares skills and whose later
\* documents add skills that outnumber them.
C13_Witness ==
    /\ Aggregated
    /\ Len(documents) = 3
    /\ Len(merge_skills(SubSeq(documents, 1, 1))) = 2
    /\ Len(profile.skills) = 3
    /\ profile.skills[3] \in Range(merge_skills(SubSeq(documents, 1, 1)))

\* The caller supplied the filter: the key is in the dict with a value other
\* than None.
FilterSupplied(key) ==
    /\ response.filters # NoFilters
    /\ key \in DOMAIN response.filters
    /\ response.filters[key] # Null

\* The predicate of each filter, on expert e and the filters of the response.
SatisfiesSupplied(e) ==
    /\ FilterSupplied("domain") => Val(response.filters.domain) \in domains(e)
    /\ FilterSupplied("min_hourly_rate") =>
           hourly_rate_advisory(e) >= Val(response.filters.min_hourly_rate)
    /\ FilterSupplied("max_hourly_rate") =>
           hourly_rate_advisory(e) <= Val(response.filters.max_hourly_rate)
    /\ FilterSupplied("vetting_status") =>
           vetting_status(e) = Val(response.filters.vetting_status)
    /\ FilterSupplied("min_rating") => rating(e) >= Val(response.filters.min_rating)
    /\ FilterSupplied("availability") => availability(e) = response.filters.availability

\* C14: every expert search_similar_experts returns satisfies the predicate of
\* every filter the caller supplied, whatever the supplied value is.
C14_FiltersConjunction ==
    SearchResponded => \A e \in ReturnedIds : SatisfiesSupplied(e)

\* C15: a second call of search_similar_experts with the same query vector,
\* limit, threshold and filters on the unchanged store returns the rows of the
\* first call in the same order.
C15_SearchDeterministic ==
    (SearchResponded /\ response.previous # Null) =>
        response.rows = Val(response.previous)

\* C16: in every state of the table reached by seeding, the migration and
\* update_expert_embedding, embedding_updated_at of an expert is non-NULL
\* exactly when its embedding is non-NULL.
C16_TimestampIffEmbedding ==
    \A e \in ExpertIds :
        experts[e].exists =>
            (experts[e].embedding_updated_at # Null <=> experts[e].embedding # Null)

\* C16 witness: after the migration, one seeded expert has an embedding with
\* its timestamp and another seeded expert has neither.
C16_Witness ==
    /\ columns = EmbeddingColumns
    /\ \E e1, e2 \in ExpertIds :
           /\ experts[e1].exists /\ experts[e2].exists
           /\ experts[e1].embedding # Null
           /\ experts[e1].embedding_updated_at # Null
           /\ experts[e2].embedding = Null
           /\ experts[e2].embedding_updated_at = Null

\* The row holds the embedding, text and timestamp one call writes.
WrittenByOneCall(row, now) ==
    \E in \in EmbeddingInputs :
        /\ row.embedding = Some(in.vec)
        /\ row.embedding_text = Some(in.text)
        /\ row.embedding_updated_at = Some(now)

\* C17: every step that changes the row of an existing expert leaves in it
\* the embedding, embedding_text and embedding_updated_at of one single
\* update_expert_embedding call, and leaves the row of every other expert
\* unchanged.
C17_LastWriterWins ==
    [][\A e \in ExpertIds :
           (experts[e].exists /\ experts'[e] # experts[e]) =>
               /\ WrittenByOneCall(experts'[e], clock)
               /\ \A other \in ExpertIds \ {e} : experts'[other] = experts[other]]_vars

\* C17 witness: calls for two expert ids left each row with the vector and
\* the text of its own call.
C17_Witness ==
    \E e1, e2 \in ExpertIds :
        /\ experts[e1].embedding = Some(0)
        /\ experts[e1].embedding_text = Some("Name: A")
        /\ experts[e2].embedding = Some(1)
        /\ experts[e2].embedding_text = Some("Name: B")

BatchEnded == batch.pc \in {"returned", "raised"}

\* C18: an error while building the text of one stale expert, encoding it or
\* writing its embedding does not end the run before every stale expert of
\* the batch was handled, and at every moment the experts handled with
\* success, and only they, hold the embedding the run wrote for them.
C18_ErrorIsolation ==
    batch # NoBatch =>
        /\ BatchEnded => Len(batch.outcomes) = Len(batch.todo)
        /\ \A k \in 1..Len(batch.todo) :
               LET row == experts[batch.todo[k]] IN
               IF k <= Len(batch.outcomes) /\ batch.outcomes[k] = "updated"
               THEN /\ row.embedding = Some(BatchInput(batch.todo[k]).vec)
                    /\ row.embedding_text = Some(BatchInput(batch.todo[k]).text)
               ELSE row.embedding = Null

\* C18 witness: a run ended in which each kind of error hit an expert between
\* two experts whose embeddings were written.
C18_Witness ==
    /\ batch # NoBatch
    /\ BatchEnded
    /\ Len(batch.outcomes) = 5
    /\ batch.outcomes[1] = "updated"
    /\ {batch.outcomes[2], batch.outcomes[3], batch.outcomes[4]} = ErrorOutcomes
    /\ batch.outcomes[5] = "updated"
    /\ experts[batch.todo[1]].embedding # Null
    /\ experts[batch.todo[5]].embedding # Null

\* The experts of the run with an outcome of the set.
Handled(kinds) ==
    Cardinality({k \in 1..Len(batch.outcomes) : batch.outcomes[k] \in kinds})

\* C19: the tally the run reports counts every stale expert once: updated,
\* skipped and errors are the numbers of experts updated, skipped for no
\* content and failed, the skipped count is part of the report, and processed
\* is the length of the list the staleness query returned.
C19_TallyAccountsOnce ==
    (batch # NoBatch /\ BatchEnded) =>
        /\ batch.report # Null
        /\ "skipped" \in DOMAIN Val(batch.report)
        /\ Val(batch.report).updated = Handled({"updated"})
        /\ Val(batch.report).skipped = Handled({"no_content"})
        /\ Val(batch.report).errors = Handled(ErrorOutcomes)
        /\ Val(batch.report).processed = Len(batch.todo)
        /\ Val(batch.report).processed =
               Val(batch.report).updated + Val(batch.report).skipped
                   + Val(batch.report).errors

\* C20: a run of generate_all_expert_embeddings on a non-empty list of stale
\* experts ends by returning its tally.
C20_JobReturnsTally ==
    (batch # NoBatch /\ batch.job = "script" /\ batch.todo # <<>> /\ BatchEnded) =>
        /\ batch.pc = "returned"
        /\ batch.result # Null

NoEmbeddings == \A e \in ExpertIds : experts[e].embedding = Null

StoredEmbedding(row) == <<row.embedding, row.embedding_text, row.embedding_updated_at>>

\* C21: a search on an available store without any embedding returns an empty
\* list; search and the staleness query return rows only from an available
\* store and fail with an error on an unavailable one; nothing is written to
\* an unavailable store and the failed update is answered with an error.
C21_EmptyVersusFailure ==
    /\ [](/\ response.op \in {"search", "stale"} => StoreAvailable
          /\ response.op = "error" => ~StoreAvailable
          /\ (SearchResponded /\ NoEmbeddings) => response.rows = <<>>)
    /\ [][~StoreAvailable =>
            /\ \A e \in ExpertIds : StoredEmbedding(experts'[e]) = StoredEmbedding(experts[e])
            /\ response' # response => response'.op \in {"none", "error"}]_vars

\* C21 witness: with experts in the table and no embedding, a search on a
\* service whose pool is None was answered with an error.
C21_Witness ==
    /\ Existing # {}
    /\ NoEmbeddings
    /\ service.pool = Null
    /\ response.op = "error"
    /\ response.of = "search"

\* The other half: the same table searched on an available store gives an
\* empty list.
C21_EmptyIndex ==
    /\ Existing # {}
    /\ NoEmbeddings
    /\ StoreAvailable
    /\ SearchResponded
    /\ response.rows = <<>>

Encoded ==
    /\ response.op \in {"encode_document", "generate_embedding"}
    /\ response.op = "generate_embedding" => response.ready

\* C22: encode_document and generate_embedding (on an initialized service)
\* return the zero vector of 384 components, without calling the model, for
\* a text of fewer than 10 characters after stripping.
C22_NearEmptyIsZeroVector ==
    (Encoded /\ Len(Strip(response.text)) < MinDocumentChars) =>
        response.result = ZeroVector(EmbeddingDim)

Similar == response.op = "calculate_similarity"

\* result is at most 1 in absolute value.
WithinUnit(result) == result.m <= result.s

\* result is dot / sqrt(sq1 * sq2) to within 3 hundredths, the accuracy three
\* roundings at FloatDigits digits leave.
NearQuotient(result, dot_product, sq1, sq2) ==
    /\ (result.sign < 0) <=> (dot_product < 0)
    /\ LET hundredths == (result.m * 100) \div result.s
           lo == IF hundredths > 3 THEN hundredths - 3 ELSE 0
           hi == hundredths + 3
           exact == 100 * 100 * dot_product * dot_product
       IN /\ lo * lo * sq1 * sq2 <= exact
          /\ exact <= hi * hi * sq1 * sq2

\* C23: calculate_similarity returns 0 when a vector has norm 0; for two
\* non-zero vectors of the same dimension it returns dot(a, b) / (|a| |b|),
\* a value in [-1, 1] that is 1 for a = b.
C23_CosineBounds ==
    (Similar /\ Len(response.embedding1) = Len(response.embedding2)) =>
        LET a == response.embedding1
            b == response.embedding2
        IN IF Dot(a, a) = 0 \/ Dot(b, b) = 0
           THEN response.result = FloatZero
           ELSE /\ NearQuotient(response.result, Dot(a, b), Dot(a, a), Dot(b, b))
                /\ WithinUnit(response.result)
                /\ a = b => (response.result.sign = 1 /\ response.result.m = response.result.s)

Covered == response.op = "calculate_document_coverage_score"

\* The distinct source types of the call's documents, a record without the
\* key counting as the type 'unknown'.
DistinctTypes ==
    {Get(response.documents[i], "source_type", "unknown") : i \in 1..Len(response.documents)}

\* C25: calculate_document_coverage_score is 0 for 0 or 1 distinct source
\* types, 5 for 2, 12 for 3 and 20 for 4 or more, however many documents share
\* a type.
C25_CoverageStep ==
    Covered =>
        LET n == Cardinality(DistinctTypes) IN
        /\ n \in {0, 1} => response.result = 0
        /\ n = 2 => response.result = 5
        /\ n = 3 => response.result = 12
        /\ n >= 4 => response.result = 20

\* C25 witness: four documents of three types score 12.
C25_Witness ==
    /\ Covered
    /\ Len(response.documents) = 4
    /\ Cardinality(DistinctTypes) = 3
    /\ response.result = 12

\* The topics and GitHub languages of the documents, in documents order.
DeclaredTopics ==
    Flatten([i \in 1..Len(documents) |->
                Get(documents[i], "top_topics", <<>>)
                    \o Get(documents[i], "github_languages", <<>>)])

\* The index of the first occurrence of each topic of the list.
TopicFirstSeen(topics) ==
    [topic \in Range(topics) |->
        CHOOSE i \in 1..Len(topics) :
            /\ topics[i] = topic
            /\ \A j \in 1..(i - 1) : topics[j] # topic]

\* How often each topic of the list occurs in it.
TopicFrequency(topics) == [topic \in Range(topics) |-> Count(topics, topic)]

\* C24: top_topics holds at most 10 distinct declared topics, by descending
\* frequency over all documents, equal frequencies in first-seen order, and
\* no omitted topic is more frequent than an included one.
C24_TopTopics ==
    Aggregated =>
        LET top == profile.top_topics
            declared == DeclaredTopics
            frequency == TopicFrequency(declared)
            first_seen == TopicFirstSeen(declared)
        IN
        /\ Len(top) <= 10
        /\ Range(top) \subseteq Range(declared)
        /\ \A i, j \in 1..Len(top) :
               i < j =>
                   /\ top[i] # top[j]
                   /\ \/ frequency[top[i]] > frequency[top[j]]
                      \/ /\ frequency[top[i]] = frequency[top[j]]
                         /\ first_seen[top[i]] < first_seen[top[j]]
        /\ \A omitted \in Range(declared) \ Range(top) :
               \A i \in 1..Len(top) : frequency[omitted] <= frequency[top[i]]

\* C24 witness: more than 10 distinct topics were declared, a topic seen
\* eleventh is listed for its frequency and a topic seen earlier is omitted.
C24_Witness ==
    LET top == profile.top_topics
        declared == DeclaredTopics
        frequency == TopicFrequency(declared)
        first_seen == TopicFirstSeen(declared)
    IN
    /\ Aggregated
    /\ Len(top) = 10
    /\ Cardinality(Range(declared)) > 10
    /\ \E i \in 1..10 :
           /\ first_seen[top[i]] > 10
           /\ frequency[top[i]] > frequency[top[10]]
    /\ \E omitted \in Range(declared) \ Range(top) : first_seen[omitted] <= 10

\* C26: every profile aggregate_profile returns has skill_count equal to the
\* length of skills and document_count equal to the number of input
\* documents, for the empty input too.
C26_CountsMatch ==
    Aggregated =>
        /\ profile.skill_count = Len(profile.skills)
        /\ profile.document_count = Len(documents)

\* C26 witness: three documents declaring more skills than the merged list
\* keeps.
C26_Witness ==
    /\ Aggregated
    /\ Len(documents) = 3
    /\ profile.document_count = 3
    /\ profile.skill_count > 0
    /\ profile.skill_count < Len(DeclaredSkills)

\* C27 (as claimed): an expert the staleness query does not report has the
\* embedding_text built from its current profile content, under every
\* interleaving of profile edits with regenerations.
C27_FreshImpliesCurrent ==
    \A e \in Existing :
        ~NeedsEmbedding(experts[e]) =>
            experts[e].embedding_text = Some(build_expert_text(regen.content[e]))

\* The endpoint update_expert_embedding has answered.
UpdateAnswered == response.op = "POST /experts/{expert_id}/embedding"

\* C28 (as claimed): with the store reachable, the endpoint answers a request
\* for an id without an expert record with 404 "Expert not found", and the
\* request writes nothing to the store.
C28_MissingExpertIs404 ==
    /\ [](UpdateAnswered /\ response.store_ok /\ ~experts[response.expert_id].exists
             => /\ response.outcome.status_code = 404
                /\ response.outcome.detail = "Expert not found")
    /\ [][(response'.op = "POST /experts/{expert_id}/embedding"
              /\ ~experts[response'.expert_id].exists)
             => experts' = experts]_vars

\* The endpoint semantic_search has answered.
SearchAnswered == response.op = "POST /search"

\* C29 (as claimed): a search request that carries a filters object yields a
\* search response, computed with those filters.
C29_FiltersAccepted ==
    (SearchAnswered /\ response.filters # NoFilters) =>
        /\ response.outcome.kind = "returned"
        /\ \A i \in 1..Len(response.outcome.body) :
               PassesFilters(response.outcome.body[i].id, response.filters.fields)

\* Every pool the service created is the one self.pool references or has
\* been closed.
NoUnreferencedOpenPool ==
    \A p \in 1..Len(service.pools) : PoolOpen(p) => service.pool = Some(p)

\* No call that awaits a connection of a pool (the health check of
\* initialize, get_connection) finds that pool closed under it.
NoPoolClosedUnderAcquirer ==
    \A c \in Callers :
        service.calls[c].pc \in {"health", "acquiring"} => PoolOpen(service.calls[c].p)

\* C30 (as claimed): under every interleaving of initialize and close calls
\* the service leaks no pool, and closes no pool that in-flight operations
\* still acquire connections from.
C30_NoPoolLeak == NoUnreferencedOpenPool /\ NoPoolClosedUnderAcquirer

====
